---- MODULE Spec2Model ----
(***************************************************************************)
(* Model of the ev3dev device discovery engine: the address codec, the     *)
(* sysfs class directory scanner (deviceDir.findByAddress) and the entry   *)
(* points of Brick and Port that call it.                                  *)
(***************************************************************************)
EXTENDS Integers, Sequences, FiniteSets, TLC

\* ---------------------------------------------------------------- bounds
\* Device directories are named <prefix><n> with n in 0..MaxSlot.
MaxSlot == 2
\* Number of calls in one behaviour that may end in an I/O failure, where
\* the reads of every slot are counted.
MaxFailures == 1
\* Number of goroutines that use the public API concurrently.
NumGoroutines == 2
\* Address strings given to the codec have 0..MaxShort bytes, or a length
\* from two below the capacity of an address to MaxExcess above it.
MaxShort == 2
MaxExcess == 1
\* Number of entries the class directory holds when its names are modelled.
MaxEntries == 2
\* Number of writeAttr calls made on one open file handle.
MaxWrites == 3
\* Fixed-point operands have 0..MaxDecimals decimals and are shifted by
\* -MaxShift..MaxShift places.
MaxDecimals == 2
MaxShift == 2
\* The rated maximum speed of a motor is 1..MaxRated; callers ask for speeds
\* up to one beyond it, in either direction.
MaxRated == 2

\* ------------------------------------------------------ program constants
\* type address [64]byte
AddrLen == 64
\* '\n', the byte readAttrBytes strips from the end of an attribute.
NL == 10

Slots == 0..MaxSlot
NoSlot == -1

Min(a, b) == IF a < b THEN a ELSE b

\* ------------------------------------------------------------ the codec
\* A codec that accepts a string as long as the array.
newAddressOffByOne(s) ==
  IF Len(s) > AddrLen
  THEN [err |-> TRUE, a |-> [i \in 1..AddrLen |-> 0]]
  ELSE [err |-> FALSE,
        a |-> [i \in 1..AddrLen |->
                 IF i = 1 THEN Len(s) % 256
                 ELSE IF i - 1 <= Len(s) THEN s[i - 1] ELSE 0]]

\* A read that leaves the trailing newline in the count.
readAttrBytesKeepsNewline(content, size) ==
  LET n0 == IF Len(content) < size THEN Len(content) ELSE size
  IN [p |-> SubSeq(content, 1, n0), n |-> n0]

\* address{}: the zero value of the array.
ZeroAddr == [i \in 1..AddrLen |-> 0]

\* newAddress: a[0] holds the length, a[1:] the bytes, the rest stays zero.
newAddress(s) ==
  IF Len(s) > AddrLen - 1
  THEN [err |-> TRUE, a |-> ZeroAddr]
  ELSE [err |-> FALSE,
        a |-> [i \in 1..AddrLen |->
                 IF i = 1 THEN Len(s)
                 ELSE IF i - 1 <= Len(s) THEN s[i - 1] ELSE 0]]

\* address.String: string(a[1 : a[0]+1]).
String(a) == SubSeq(a, 2, a[1] + 1)

\* readAttrBytes on a file holding `content`, into a buffer of `size` bytes:
\* ReadAt(p, 0) fills at most `size` bytes, one trailing newline is dropped
\* from the count.
readAttrBytes(content, size) ==
  LET n0 == Min(Len(content), size)
      p  == SubSeq(content, 1, n0)
  IN [p |-> p,
      n |-> IF n0 > 0 /\ p[n0] = NL THEN n0 - 1 ELSE n0]

\* readAttrAddr: reads into the address array itself (var a address, zero
\* where ReadAt stored nothing), then copy(a[1:], a[:n]) shifts the bytes up
\* by one, a[0] = byte(n) stores the length and the loop zeroes a[n+1:].
readAttrAddr(content) ==
  LET r == readAttrBytes(content, AddrLen)
  IN IF r.n > AddrLen - 1
     THEN [err |-> TRUE, a |-> ZeroAddr]
     ELSE [err |-> FALSE,
           a |-> [i \in 1..AddrLen |->
                    IF i = 1 THEN r.n
                    ELSE IF i - 1 <= r.n THEN r.p[i - 1] ELSE 0]]

\* ------------------------------------------------------ the environment
\* What the address attribute of a device directory may hold: "A" (bare)
\* and "B\n" (newline-terminated).
Contents == {<<65>>, <<66, NL>>}
\* The directory <prefix><n> does not exist.
Absent == <<-1>>
\* Address strings a caller may ask for; LongString exceeds the capacity.
LongString == [i \in 1..AddrLen |-> 65]
ReqStrings == {<<65>>, <<66>>}
PortStrings == ReqStrings \cup {LongString}
ReqAddrs == {newAddress(s).a : s \in ReqStrings}

\* An I/O failure injected into one call: the listing fails, os.Open of a
\* slot's address attribute fails, or the read of it fails.
NoFail == [kind |-> "none", slot |-> NoSlot]
Fails == {NoFail, [kind |-> "list", slot |-> NoSlot]}
           \cup {[kind |-> k, slot |-> s] : k \in {"open", "read"}, s \in Slots}

VARIABLES
  dir,         \* the class directory: slot -> content of its address attribute
  n,           \* deviceDir.n, the highest scanned device number or -1
  skipped,     \* deviceDir.skipped
  claimed,     \* history: slots that findByAddress has returned
  last,        \* the last call, its result and the scanner state it started in
  readCount,   \* history: slot -> number of reads of its address attribute
  okCount,     \* history: slot -> number of successful reads
  ioFailures,  \* history: number of calls that ended in an I/O failure
  claimedAddr, \* history: slot -> address it was returned for
  reconf,      \* history: slots created above n after the removal of a slot
               \* that was claimed for the same address
  pc,          \* goroutine -> position in the API call it is making
  mu,          \* devices.mu: Unlocked, or the goroutine holding it
  havePort,    \* PortByAddress has handed out a Port
  gone,        \* history: slots whose directory was removed at least once
  masked,      \* history: listed slots recreated at or below n, never claimed
  regs,        \* codec: the addresses held by two variables of a caller
  entries,     \* listing: the names present in the class directory
  listing,     \* listing: what the last list and findByAddress produced
  file,        \* attribute file: its content and the offset of the handle
  written,     \* attribute file: the bytes of the last successful writeAttr
  fp,          \* fixedpoint: the operands of the last operation
  fpOut,       \* fixedpoint: its result
  motor,       \* tacho motor: max_speed and the writes of the last command
  opened       \* history: the class that is opened, and the first device
               \* whose construction failed, with the high-water mark then

readVars == <<readCount, okCount, ioFailures>>
claimVars == <<claimedAddr, reconf>>
scanVars == <<dir, n, skipped, claimed, last>>
concVars == <<pc, mu, havePort>>
reuseVars == <<gone, masked>>
\* The state of the scanner, its histories and its callers.
engineVars == <<scanVars, readVars, claimVars, concVars, reuseVars>>
\* The state the helper functions are exercised on.
\* The devices that are opened on ports.
deviceVars == <<motor, opened>>
helperVars == <<regs, entries, listing, file, written, fp, fpOut, deviceVars>>
vars == <<engineVars, helperVars>>

\* ------------------------------------------------------------ the scanner
\* sort.Slice(deviceNames, ...): ascending by device number.
RECURSIVE SortedSeq(_)
SortedSeq(S) ==
  IF S = {} THEN <<>>
  ELSE LET m == CHOOSE x \in S : \A y \in S : x <= y
       IN <<m>> \o SortedSeq(S \ {m})

Listed(d) == {s \in Slots : d[s] # Absent}

\* A listing that is left in descending order.
RECURSIVE SortedDesc(_)
SortedDesc(S) ==
  IF S = {} THEN <<>>
  ELSE LET m == CHOOSE x \in S : \A y \in S : x >= y
       IN <<m>> \o SortedDesc(S \ {m})

listDescending(d) == SortedDesc(Listed(d))

\* A listing that still names the directories that were removed.
listStale(d) == SortedSeq(Slots)

\* deviceDir.list: the device numbers present, in ascending order.
list(d) == SortedSeq(Listed(d))

\* The cursor into the skip list is never moved.
AdvanceSkipStuck(sk, skipIndex, dn) == skipIndex

\* The inner loop of findByAddress: move skipIndex past the entries whose
\* device number is below dn. Indices are 1-based here.
RECURSIVE AdvanceSkip(_, _, _)
AdvanceSkip(sk, skipIndex, dn) ==
  IF skipIndex <= Len(sk) /\ sk[skipIndex].i < dn
  THEN AdvanceSkip(sk, skipIndex + 1, dn)
  ELSE skipIndex

\* The matched entry is left in the skip list.
RemoveAtKeeps(sk, k) == sk

\* The first entry is removed, whichever entry matched.
RemoveAtFirst(sk, k) == SubSeq(sk, 2, Len(sk))

\* Everything from the matched entry on is cut off.
RemoveAtTruncates(sk, k) == SubSeq(sk, 1, k - 1)

\* append(d.skipped[:skipIndex], d.skipped[skipIndex+1:]...)
RemoveAt(sk, k) == SubSeq(sk, 1, k - 1) \o SubSeq(sk, k + 1, Len(sk))

\* No device is ignored on account of the high-water mark.
BelowHighWaterNever(hw, dn) == FALSE

\* The device at the high-water mark itself is not ignored.
BelowHighWaterStrict(hw, dn) == hw >= 0 /\ dn < hw

\* The device just above the high-water mark is ignored too.
BelowHighWaterOffByOne(hw, dn) == hw >= 0 /\ dn <= hw + 1

\* The condition under which a device that is not in the skip list is
\* ignored without being read.
BelowHighWater(hw, dn) == hw >= 0 /\ dn <= hw

\* The high-water mark is put one above the device that was read.
HighWaterAhead(hw, dn) == dn + 1

\* The high-water mark is left where it was.
HighWaterKept(hw, dn) == hw

\* The high-water mark stops one short of the device that was read.
HighWaterBehind(hw, dn) == dn - 1

\* d.n = dn.n, after the address of dn was read.
HighWaterAfterRead(hw, dn) == dn

\* The device that did not match is not recorded.
AppendSkippedDropped(sk, dn, devAddr) == sk

\* The new entry is put in front of the list.
PrependSkipped(sk, dn, devAddr) == <<[i |-> dn, addr |-> devAddr]>> \o sk

\* d.skipped = append(d.skipped, skipEntry{dn.n, devAddr})
AppendSkipped(sk, dn, devAddr) == Append(sk, [i |-> dn, addr |-> devAddr])

\* The high-water mark is moved to dn before its address is read.
HighWaterAdvancedFirst(hw, dn) == dn

\* The returns on a failed os.Open or readAttrAddr come before d.n = dn.n.
HighWaterOnError(hw, dn) == hw

Result(res, slot, via, hw, sk, rd, ok) ==
  [res |-> res, slot |-> slot, via |-> via, n |-> hw, skipped |-> sk,
   reads |-> rd, okReads |-> ok]

\* The loop of findByAddress over deviceNames[k..], with the scanner state
\* (hw, sk) and the reads made so far (rd attempted, ok succeeded).
RECURSIVE Walk(_, _, _, _, _, _, _, _, _, _)
Walk(names, k, skipIndex, hw, sk, addr, d, fail, rd, ok) ==
  IF k > Len(names)
  THEN Result("notfound", NoSlot, "none", hw, sk, rd, ok)
  ELSE
    LET dn == names[k]
        si == AdvanceSkip(sk, skipIndex, dn)
    IN IF si <= Len(sk) /\ sk[si].i = dn
       THEN IF sk[si].addr # addr
            THEN Walk(names, k + 1, si, hw, sk, addr, d, fail, rd, ok)
            ELSE Result("ok", dn, "skip", hw, RemoveAt(sk, si), rd, ok)
       ELSE IF BelowHighWater(hw, dn)
       THEN Walk(names, k + 1, si, hw, sk, addr, d, fail, rd, ok)
       ELSE IF d[dn] = Absent \/ fail = [kind |-> "open", slot |-> dn]
       THEN Result("ioerr", NoSlot, "none", HighWaterOnError(hw, dn), sk,
                   rd, ok)
       ELSE LET read == readAttrAddr(d[dn])
                devAddr == read.a
            IN IF fail = [kind |-> "read", slot |-> dn] \/ read.err
               THEN Result("ioerr", NoSlot, "none", HighWaterOnError(hw, dn),
                           sk, rd \cup {dn}, ok)
               ELSE IF devAddr = addr
               THEN Result("ok", dn, "read", HighWaterAfterRead(hw, dn), sk,
                           rd \cup {dn}, ok \cup {dn})
               ELSE Walk(names, k + 1, si, HighWaterAfterRead(hw, dn),
                         AppendSkipped(sk, dn, devAddr),
                         addr, d, fail, rd \cup {dn}, ok \cup {dn})

\* A failed listing that also forgets what was scanned.
ListFailureResets(hw, sk) == Result("ioerr", NoSlot, "none", -1, <<>>, {}, {})

\* d.list() failed: the error is returned before the scanner is touched.
ListFailure(hw, sk) == Result("ioerr", NoSlot, "none", hw, sk, {}, {})

\* deviceDir.findByAddress on the scanner state (hw, sk) and directory d.
findByAddress(hw, sk, addr, d, fail) ==
  IF fail.kind = "list"
  THEN ListFailure(hw, sk)
  ELSE Walk(list(d), 1, 1, hw, sk, addr, d, fail, {}, {})

\* ------------------------------------------------------ the codec, alone
Fill(ch, len) == [i \in 1..len |-> ch]

\* The strings given to newAddress: short ones, ones around the capacity of
\* an address, and ones holding a newline.
CodecLens == (0..MaxShort) \cup ((AddrLen - 3)..(AddrLen - 1 + MaxExcess))
PlainStrings == {Fill(ch, len) : ch \in {65, 66}, len \in CodecLens}
                  \cup {<<65, 66>>, <<66, 65>>}
CodecStrings == PlainStrings \cup {<<NL>>, <<65, NL>>, <<65, NL, 66>>}
\* What an address attribute holds: a string, bare or newline-terminated.
CodecContents == PlainStrings \cup {s \o <<NL>> : s \in PlainStrings}

\* A variable of type address that nothing was stored in yet.
NoReg == [via |-> "none", str |-> <<>>, err |-> FALSE, a |-> ZeroAddr]
Regs == 1..2

\* regs[i], err = newAddress(s)
NewAddress(i, s) ==
  LET e == newAddress(s)
  IN /\ regs' = [regs EXCEPT ![i] =
                    [via |-> "new", str |-> s, err |-> e.err, a |-> e.a]]
     /\ UNCHANGED <<engineVars, entries, listing, file, written, fp, fpOut, deviceVars>>

\* regs[i], err = readAttrAddr(f), the attribute f holding content c.
ReadAttrAddr(i, c) ==
  LET e == readAttrAddr(c)
  IN /\ regs' = [regs EXCEPT ![i] =
                    [via |-> "read", str |-> c, err |-> e.err, a |-> e.a]]
     /\ UNCHANGED <<engineVars, entries, listing, file, written, fp, fpOut, deviceVars>>

NextCodec ==
  \/ \E i \in Regs, s \in CodecStrings : NewAddress(i, s)
  \/ \E i \in Regs, c \in CodecContents : ReadAttrAddr(i, c)

\* ---------------------------------------------- the names of a listing
\* Names are sequences of characters. The prefix of the class ("sensor"), a
\* foreign prefix ("bacon") and the suffixes an entry may carry.
Prefix == <<"s">>
OtherPrefix == <<"b">>
Digits == {"0", "1", "2", "3", "4", "5", "6", "7", "8", "9"}
Nines == [i \in 1..20 |-> "9"]
Suffixes ==
  {<<>>, <<"0">>, <<"1">>, <<"0", "1">>, <<"1", "0">>, <<"X">>, <<"1", "X">>,
   <<"-", "1">>, <<"+", "1">>, <<"-">>, Nines}
Names == {Prefix \o s : s \in Suffixes}
           \cup {OtherPrefix \o s : s \in {<<"0">>, <<"1">>}}

DigitVal(ch) ==
  CASE ch = "0" -> 0 [] ch = "1" -> 1 [] ch = "2" -> 2 [] ch = "3" -> 3
    [] ch = "4" -> 4 [] ch = "5" -> 5 [] ch = "6" -> 6 [] ch = "7" -> 7
    [] ch = "8" -> 8 [] OTHER -> 9

RECURSIVE DecimalValue(_)
DecimalValue(ds) ==
  IF ds = <<>> THEN 0
  ELSE DecimalValue(SubSeq(ds, 1, Len(ds) - 1)) * 10 + DigitVal(ds[Len(ds)])

\* strconv.Atoi: an optional sign and one or more decimal digits. Strings of
\* up to 9 characters always fit an int; of the longer ones the model has
\* only twenty nines, which is out of the range of an int of any size.
Atoi(s) ==
  LET signed == Len(s) > 0 /\ s[1] \in {"+", "-"}
      body == IF signed THEN SubSeq(s, 2, Len(s)) ELSE s
  IN IF body = <<>> \/ \E k \in 1..Len(body) : body[k] \notin Digits
     THEN [err |-> TRUE, n |-> 0]
     ELSE IF Len(body) > 9
     THEN [err |-> TRUE, n |-> 0]
     ELSE [err |-> FALSE,
           n |-> IF signed /\ s[1] = "-"
                 THEN 0 - DecimalValue(body) ELSE DecimalValue(body)]

\* strings.HasPrefix
HasPrefix(name, prefix) ==
  Len(name) >= Len(prefix) /\ SubSeq(name, 1, Len(prefix)) = prefix

\* parseDeviceName: ok is false where the code returns deviceName{}.
parseDeviceName(name, prefix) ==
  IF ~HasPrefix(name, prefix)
  THEN [ok |-> FALSE, name |-> <<>>, n |-> 0]
  ELSE LET e == Atoi(SubSeq(name, Len(prefix) + 1, Len(name)))
       IN IF e.err
          THEN [ok |-> FALSE, name |-> <<>>, n |-> 0]
          ELSE [ok |-> TRUE, name |-> name, n |-> e.n]

\* The device names deviceDir.list keeps of the entries of the directory.
deviceNames(es) ==
  {parseDeviceName(nm, Prefix) : nm \in {x \in es : parseDeviceName(x, Prefix).ok}}

\* sort.Slice by device number; names of equal number stay in some order.
RECURSIVE sortByNumber(_)
sortByNumber(S) ==
  IF S = {} THEN <<>>
  ELSE LET m == CHOOSE x \in S : \A y \in S : x.n <= y.n
       IN <<m>> \o sortByNumber(S \ {m})

\* The address attribute of an entry of the directory holds "A".
entryContent(es) ==
  [k \in {dn.n : dn \in deviceNames(es)} |-> <<65>>]

NoListing == [op |-> "none", kept |-> {}, res |-> "none", reads |-> {}]

\* An entry appears in the class directory.
AddEntry(nm) ==
  /\ nm \notin entries
  /\ Cardinality(entries) < MaxEntries
  /\ entries' = entries \cup {nm}
  /\ listing' = NoListing
  /\ UNCHANGED <<engineVars, regs, file, written, fp, fpOut, deviceVars>>

RemoveEntry(nm) ==
  /\ nm \in entries
  /\ entries' = entries \ {nm}
  /\ listing' = NoListing
  /\ UNCHANGED <<engineVars, regs, file, written, fp, fpOut, deviceVars>>

\* newDeviceDir(path, prefix).findByAddress(a) on the directory as it is.
Resolve(a) ==
  LET sorted == sortByNumber(deviceNames(entries))
      nums == [k \in 1..Len(sorted) |-> sorted[k].n]
      r == Walk(nums, 1, 1, -1, <<>>, a, entryContent(entries), NoFail, {}, {})
  IN /\ listing' = [op |-> "resolve",
                     kept |-> {dn.name : dn \in deviceNames(entries)},
                     res |-> r.res, reads |-> r.reads]
     /\ UNCHANGED <<engineVars, regs, entries, file, written, fp, fpOut, deviceVars>>

NextList ==
  \/ \E nm \in Names : AddEntry(nm)
  \/ \E nm \in Names : RemoveEntry(nm)
  \/ \E a \in ReqAddrs : Resolve(a)

\* ------------------------------------------------------ attribute files
\* The values written to an attribute: "1", "on", "run".
Payloads == {<<49>>, <<111, 110>>, <<114, 117, 110>>}
\* A handle is open on a regular file (the fakes of the tests) or on a sysfs
\* attribute, whose store method gets each write whole, whatever the offset.
FileKinds == {"regular", "sysfs"}
Closed == [kind |-> "none", content |-> <<>>, off |-> 0]
NoWrite == [calls |-> 0, failed |-> FALSE, p |-> <<>>, retries |-> 0]

\* write(2) of p at offset off into a regular file holding content: the gap
\* between the end of the file and the offset reads as zero bytes.
WriteAt(content, off, p) ==
  [i \in 1..(IF off + Len(p) > Len(content)
              THEN off + Len(p) ELSE Len(content)) |->
     IF i > off /\ i <= off + Len(p) THEN p[i - off]
     ELSE IF i <= Len(content) THEN content[i] ELSE 0]

\* openAttrWrite: os.OpenFile(path, O_WRONLY|O_TRUNC, 0).
OpenAttrWrite(kind) ==
  /\ file = Closed
  /\ file' = [kind |-> kind, content |-> <<>>, off |-> 0]
  /\ written' = NoWrite
  /\ UNCHANGED <<engineVars, regs, entries, listing, fp, fpOut, deviceVars>>

CloseFile ==
  /\ file # Closed
  /\ file' = Closed
  /\ written' = NoWrite
  /\ UNCHANGED <<engineVars, regs, entries, listing, fp, fpOut, deviceVars>>

\* writeAttr(file, p). file.Truncate(0) empties the file and leaves the
\* offset of the handle where it is; unix.Write is repeated while it is
\* interrupted (eintr times) and then writes p at the offset or fails.
WriteAttr(p, outcome, eintr) ==
  /\ file # Closed
  /\ written.calls < MaxWrites
  /\ outcome = "truncate_err" => eintr = 0
  /\ file' =
       IF outcome = "truncate_err" THEN file
       ELSE IF file.kind = "sysfs"
       THEN IF outcome = "write_err" THEN file ELSE [file EXCEPT !.content = p]
       ELSE IF outcome = "write_err" THEN [file EXCEPT !.content = <<>>]
       ELSE [file EXCEPT !.content = WriteAt(<<>>, file.off, p),
                         !.off = file.off + Len(p)]
  /\ written' = [calls |-> written.calls + 1,
                  failed |-> written.failed \/ outcome # "ok",
                  p |-> p, retries |-> eintr]
  /\ UNCHANGED <<engineVars, regs, entries, listing, fp, fpOut, deviceVars>>

NextFile ==
  \/ \E kind \in FileKinds : OpenAttrWrite(kind)
  \/ CloseFile
  \/ \E p \in Payloads, outcome \in {"ok", "truncate_err", "write_err"},
        eintr \in {0, 1} : WriteAttr(p, outcome, eintr)

\* ------------------------------------------------------------ fixedpoint
\* type Value struct { value int32; decimals uint16 }
Value(v, d) == [value |-> v, decimals |-> d]

\* int32 arithmetic wraps around. The 32 bits are handled as two halves of
\* 16 bits, so that no intermediate result exceeds 31 bits.
Half == 65536

ToHalves(v) ==
  IF v >= 0 THEN <<v \div Half, v % Half>>
  ELSE LET u == 0 - (v + 1)
       IN <<(Half - 1) - (u \div Half), (Half - 1) - (u % Half)>>

FromHalves(hi, lo) ==
  IF hi < Half \div 2 THEN hi * Half + lo
  ELSE 0 - ((Half - 1 - hi) * Half + (Half - 1 - lo)) - 1

\* value *= 10 on an int32.
Mul10(v) ==
  LET h == ToHalves(v)
      lo10 == h[2] * 10
      hi10 == h[1] * 10 + (lo10 \div Half)
  IN FromHalves(hi10 % Half, lo10 % Half)

\* normalize: the operand with fewer decimals is scaled up, one decimal at a
\* time, until both have the same number of decimals.
RECURSIVE normalize(_, _)
normalize(fp1, fp2) ==
  IF fp1.decimals > fp2.decimals
  THEN normalize(fp1, Value(Mul10(fp2.value), fp2.decimals + 1))
  ELSE IF fp1.decimals < fp2.decimals
  THEN normalize(Value(Mul10(fp1.value), fp1.decimals + 1), fp2)
  ELSE <<fp1, fp2>>

\* Value.Equal
Equal(fp1, fp2) ==
  LET nz == normalize(fp1, fp2) IN nz[1].value = nz[2].value

\* Value.Shift10; uint16(n) of a negative n is n + 65536, and the sum or
\* difference of two uint16 wraps around.
Shift10(fp1, sh) ==
  IF sh < 0
  THEN Value(fp1.value, (fp1.decimals - (sh + Half)) % Half)
  ELSE Value(fp1.value, (fp1.decimals + sh) % Half)

FpValues == {0, 1, 4, 42, 50, 4200, -42, 429496730, 2147483647, -2147483647}
FpDecimals == 0..MaxDecimals
FpShifts == (0 - MaxShift)..MaxShift
FpOperands == {Value(v, d) : v \in FpValues, d \in FpDecimals}
NoFp == [op |-> "none", a |-> Value(0, 0), b |-> Value(0, 0), sh |-> 0]
NoFpOut == [eq |-> FALSE, v |-> Value(0, 0)]

\* a.Equal(b)
CallEqual(a, b) ==
  /\ fp' = [op |-> "Equal", a |-> a, b |-> b, sh |-> 0]
  /\ fpOut' = [eq |-> Equal(a, b), v |-> Value(0, 0)]
  /\ UNCHANGED <<engineVars, regs, entries, listing, file, written,
                 deviceVars>>

\* a.Shift10(sh)
CallShift10(a, sh) ==
  /\ fp' = [op |-> "Shift10", a |-> a, b |-> Value(0, 0), sh |-> sh]
  /\ fpOut' = [eq |-> FALSE, v |-> Shift10(a, sh)]
  /\ UNCHANGED <<engineVars, regs, entries, listing, file, written,
                 deviceVars>>

NextFixed ==
  \/ \E a, b \in FpOperands : CallEqual(a, b)
  \/ \E a \in FpOperands, sh \in FpShifts : CallShift10(a, sh)

\* ---------------------------------------------------------- tacho motors
\* Motor stop modes.
Coast == 0
Brake == 1
Hold == 2
\* StopAction is an int: the values of the three modes and one more.
StopActions == Coast..(Hold + 1)

\* StopAction.String
StopActionString(action) ==
  IF action = Coast THEN "coast"
  ELSE IF action = Brake THEN "brake"
  ELSE IF action = Hold THEN "hold"
  ELSE "StopAction(?)"

\* StopAction.isValid
isValid(action) == action = Coast \/ action = Brake \/ action = Hold

\* max_speed as the driver reports it, and the speeds a caller may ask for.
MaxSpeeds == 1..MaxRated
Speeds == (0 - MaxRated - 1)..(MaxRated + 1)
Positions == {-3, 14}
\* time.Duration values, in nanoseconds.
Durations == {0, 1999999, 25000000}

\* *TachoMotorParams: nil, or a speed and a stop action.
NilParams == [nil |-> TRUE, Speed |-> 0, StopAction |-> Coast]
ParamSets ==
  {NilParams} \cup
    {[nil |-> FALSE, Speed |-> s, StopAction |-> x] :
       s \in Speeds, x \in StopActions}

\* strconv.AppendInt(buf, value, 10): the decimal digits, '-' in front of a
\* negative value.
RECURSIVE DecimalDigits(_)
DecimalDigits(v) ==
  IF v < 10 THEN <<48 + v>>
  ELSE DecimalDigits(v \div 10) \o <<48 + (v % 10)>>

AppendInt(value) ==
  IF value < 0 THEN <<45>> \o DecimalDigits(0 - value)
  ELSE DecimalDigits(value)

\* Duration.Milliseconds of a non-negative duration.
Milliseconds(t) == t \div 1000000

\* The writes one call has made so far, whether it has failed, and which of
\* its writes the kernel rejects (0: none).
Start(failAt) == [log |-> <<>>, err |-> FALSE, failAt |-> failAt]
FailPoints == 0..4

\* writeAttr on one of the motor's attribute files; a step of a call that
\* has returned an error is not executed.
writeAttr(st, attr, p) ==
  IF st.err THEN st
  ELSE LET ok == Len(st.log) + 1 # st.failAt
       IN [st EXCEPT !.log = Append(st.log,
                                    [attr |-> attr, val |-> p, ok |-> ok]),
                     !.err = ~ok]

\* writeAttrInt
writeAttrInt(st, attr, value) == writeAttr(st, attr, AppendInt(value))

\* The speed is written whatever the rated maximum is.
setSpeedUnchecked(st, speed, maxSpeed) == writeAttrInt(st, "speed_sp", speed)

\* TachoMotor.setSpeed
setSpeed(st, speed, maxSpeed) ==
  IF st.err THEN st
  ELSE IF speed > maxSpeed \/ speed < 0 - maxSpeed
  THEN [st EXCEPT !.err = TRUE]
  ELSE writeAttrInt(st, "speed_sp", speed)

\* TachoMotor.setPosition
setPosition(st, pos) == writeAttrInt(st, "position_sp", pos)

\* TachoMotor.setTime
setTime(st, t) == writeAttrInt(st, "time_sp", Milliseconds(t))

\* TachoMotor.setStopAction
setStopAction(st, action) ==
  IF st.err THEN st
  ELSE IF ~isValid(action)
  THEN [st EXCEPT !.err = TRUE]
  ELSE writeAttr(st, "stop_action", StopActionString(action))

\* TachoMotor.setParams
setParams(st, params, maxSpeed) ==
  LET s1 == IF ~params.nil /\ params.Speed # 0
            THEN setSpeed(st, params.Speed, maxSpeed)
            ELSE st
      action == IF ~params.nil THEN params.StopAction ELSE Coast
  IN setStopAction(s1, action)

NoMotor ==
  [open |-> FALSE, maxSpeed |-> 0, op |-> "none", arg |-> 0,
   params |-> NilParams, log |-> <<>>, err |-> FALSE]

\* newTachoMotor succeeds: max_speed is read once and kept.
NewTachoMotor(maxSpeed) ==
  /\ ~motor.open
  /\ motor' = [NoMotor EXCEPT !.open = TRUE, !.maxSpeed = maxSpeed]
  /\ UNCHANGED <<engineVars, regs, entries, listing, file, written, fp, fpOut,
                 opened>>

\* A call on the motor has returned, st being what it did. A failure that
\* is injected at a write the call never makes is not a different call.
MotorCall(op, arg, params, st) ==
  /\ motor.open
  /\ st.failAt = 0 \/ \E k \in 1..Len(st.log) : ~st.log[k].ok
  /\ motor' = [motor EXCEPT !.op = op, !.arg = arg, !.params = params,
                            !.log = st.log, !.err = st.err]
  /\ UNCHANGED <<engineVars, regs, entries, listing, file, written, fp, fpOut,
                 opened>>

\* TachoMotor.Reset
Reset(failAt) ==
  MotorCall("Reset", 0, NilParams,
            writeAttr(Start(failAt), "command", "reset"))

\* TachoMotor.Run
Run(speed, failAt) ==
  LET s1 == setSpeed(Start(failAt), speed, motor.maxSpeed)
  IN MotorCall("Run", speed, NilParams,
               writeAttr(s1, "command", "run-forever"))

\* TachoMotor.RunToPosition
RunToPosition(pos, params, failAt) ==
  LET s1 == setPosition(Start(failAt), pos)
      s2 == setParams(s1, params, motor.maxSpeed)
  IN MotorCall("RunToPosition", pos, params,
               writeAttr(s2, "command", "run-to-abs-pos"))

\* TachoMotor.RunToDelta
RunToDelta(delta, params, failAt) ==
  LET s1 == setPosition(Start(failAt), delta)
      s2 == setParams(s1, params, motor.maxSpeed)
  IN MotorCall("RunToDelta", delta, params,
               writeAttr(s2, "command", "run-to-rel-pos"))

\* TachoMotor.RunTimed
RunTimed(t, params, failAt) ==
  LET s1 == setTime(Start(failAt), t)
      s2 == setParams(s1, params, motor.maxSpeed)
  IN MotorCall("RunTimed", t, params,
               writeAttr(s2, "command", "run-timed"))

\* TachoMotor.Stop
Stop(action, failAt) ==
  LET s1 == setStopAction(Start(failAt), action)
  IN MotorCall("Stop", action, NilParams, writeAttr(s1, "command", "stop"))

NextMotor ==
  \/ \E maxSpeed \in MaxSpeeds : NewTachoMotor(maxSpeed)
  \/ \E failAt \in FailPoints : Reset(failAt)
  \/ \E speed \in Speeds, failAt \in FailPoints : Run(speed, failAt)
  \/ \E pos \in Positions, params \in ParamSets, failAt \in FailPoints :
       RunToPosition(pos, params, failAt)
  \/ \E delta \in Positions, params \in ParamSets, failAt \in FailPoints :
       RunToDelta(delta, params, failAt)
  \/ \E t \in Durations, params \in ParamSets, failAt \in FailPoints :
       RunTimed(t, params, failAt)
  \/ \E action \in StopActions, failAt \in FailPoints : Stop(action, failAt)

\* ---------------------------------------------------------------- state
NoCall ==
  [op |-> "none", str |-> <<>>, addr |-> ZeroAddr, res |-> "none",
   slot |-> NoSlot, via |-> "none", reads |-> {}, fail |-> NoFail,
   pre_n |-> -1, pre_skipped |-> <<>>, pre_claimed |-> {},
   pre_reconf |-> {}]

Goroutines == 1..NumGoroutines
\* No device of either class has been opened.
NoOpened == [class |-> "none", broken |-> {}]
Unlocked == 0

\* newDeviceDir: n = -1 and an empty skip list; the directory starts empty.
Init ==
  /\ dir = [s \in Slots |-> Absent]
  /\ n = -1
  /\ skipped = <<>>
  /\ claimed = {}
  /\ last = NoCall
  /\ readCount = [s \in Slots |-> 0]
  /\ okCount = [s \in Slots |-> 0]
  /\ ioFailures = 0
  /\ claimedAddr = [s \in Slots |-> ZeroAddr]
  /\ reconf = {}
  /\ pc = [g \in Goroutines |-> "idle"]
  /\ mu = Unlocked
  /\ havePort = FALSE
  /\ gone = {}
  /\ masked = {}
  /\ regs = [i \in Regs |-> NoReg]
  /\ entries = {}
  /\ listing = NoListing
  /\ file = Closed
  /\ written = NoWrite
  /\ fp = NoFp
  /\ fpOut = NoFpOut
  /\ motor = NoMotor
  /\ opened = NoOpened

\* ----------------------------------------------------- the environment
\* The steps of the kernel and of the callers are taken between calls: a
\* call that has returned is pending in `last` until its caller has taken
\* the result (Return).
\* The kernel creates the device directory of slot s, its address attribute
\* holding c.
CreateDevice(s, c) ==
  /\ last.op = "none"
  /\ dir[s] = Absent
  /\ dir' = [dir EXCEPT ![s] = c]
  /\ UNCHANGED <<n, skipped, claimed, last, readVars, claimedAddr, concVars,
                 helperVars>>

\* The kernel removes the device directory of slot s.
DeleteDevice(s) ==
  /\ last.op = "none"
  /\ dir[s] # Absent
  /\ dir' = [dir EXCEPT ![s] = Absent]
  /\ UNCHANGED <<n, skipped, claimed, last, readVars, claimedAddr, concVars,
                 helperVars>>

\* History of reconfigurations: s is created above the high-water mark while
\* a slot that was claimed for the same address is gone.
NoteCreate(s, c) ==
  reconf' = IF /\ s > n
               /\ \E N \in claimed : /\ dir[N] = Absent
                                     /\ claimedAddr[N] = readAttrAddr(c).a
            THEN reconf \cup {s}
            ELSE reconf \ {s}

NoteDelete(s) == reconf' = reconf \ {s}

\* History of reused slot numbers: s is created again, at or below the
\* high-water mark, and no call has returned it so far.
NoteRecreate(s) ==
  /\ masked' = IF s \in gone /\ s <= n /\ s \notin claimed
                THEN masked \cup {s}
                ELSE masked \ {s}
  /\ UNCHANGED gone

NoteGone(s) ==
  /\ gone' = gone \cup {s}
  /\ masked' = masked \ {s}

\* ------------------------------------------------------------ the calls
\* One findByAddress call made by operation op for the address a (asked for
\* as the string str), r being what the call computes. An injected failure
\* that the call never meets is not a different call.
ScanStep(op, str, a, fail, r) ==
     /\ last.op = "none"
     /\ fail = NoFail \/ r.res = "ioerr"
     /\ n' = r.n
     /\ skipped' = r.skipped
     /\ claimed' = IF r.res = "ok" THEN claimed \cup {r.slot} ELSE claimed
     /\ last' = [op |-> op, str |-> str, addr |-> a, res |-> r.res,
                 slot |-> r.slot, via |-> r.via, reads |-> r.reads,
                 fail |-> fail, pre_n |-> n, pre_skipped |-> skipped,
                 pre_claimed |-> claimed, pre_reconf |-> reconf]
     /\ UNCHANGED <<dir, concVars, reuseVars>>

\* A call that is not made to open a device.
Scan(op, str, a, fail, r) ==
  ScanStep(op, str, a, fail, r) /\ UNCHANGED helperVars

\* History of the reads the call makes.
CountReads(fail, r) ==
     /\ fail = NoFail \/ ioFailures < MaxFailures
     /\ readCount' = [s \in Slots |->
                        IF s \in r.reads THEN readCount[s] + 1 ELSE readCount[s]]
     /\ okCount' = [s \in Slots |->
                      IF s \in r.okReads THEN okCount[s] + 1 ELSE okCount[s]]
     /\ ioFailures' = IF fail = NoFail THEN ioFailures ELSE ioFailures + 1

\* History of the claims the call makes; the call is "the next call for a".
NoteClaim(a, r) ==
     /\ claimedAddr' = IF r.res = "ok"
                       THEN [claimedAddr EXCEPT ![r.slot] = a]
                       ELSE claimedAddr
     /\ reconf' = {s \in reconf : readAttrAddr(dir[s]).a # a}

\* A direct call d.findByAddress(a), as Port.OpenSensor and
\* Port.OpenTachoMotor make with the port's address.
FindByAddress(a, fail, r) == Scan("findByAddress", String(a), a, fail, r)

\* Brick.PortByAddress(str): the string is encoded first; a string that does
\* not fit is rejected before the scanner is consulted.
PortByAddress(str, fail) ==
  LET e == newAddress(str)
  IN IF e.err
     THEN /\ last.op = "none"
          /\ fail = NoFail
          /\ last' = [NoCall EXCEPT !.op = "PortByAddress", !.str = str,
                        !.res = "toolong", !.pre_n = n,
                        !.pre_skipped = skipped, !.pre_claimed = claimed]
          /\ UNCHANGED <<dir, n, skipped, claimed, claimVars, concVars,
                         reuseVars, helperVars>>
     ELSE LET r == findByAddress(n, skipped, e.a, dir, fail)
          IN /\ Scan("PortByAddress", str, e.a, fail, r)
             /\ NoteClaim(e.a, r)

\* const LegoNXTTouch SensorType = 1 + iota
LegoNXTTouch == 1
SensorTypes == {0, LegoNXTTouch}

\* SensorType.portMode: empty for an unknown type.
portMode(typ) == IF typ = LegoNXTTouch THEN "nxt-analog" ELSE ""

\* Port.OpenSensor and Port.OpenTachoMotor return before the scanner of the
\* class is consulted: the sensor type is unknown, or a write to the port's
\* mode or set_device attribute failed.
OpenRejected(op, class, a, res) ==
  /\ last.op = "none"
  /\ opened.class \in {"none", class}
  /\ last' = [NoCall EXCEPT !.op = op, !.res = res]
  /\ opened' = [opened EXCEPT !.class = class]
  /\ UNCHANGED <<dir, n, skipped, claimed, readVars, claimVars, concVars,
                 reuseVars, regs, entries, listing, file, written, fp, fpOut,
                 motor>>

\* A failed construction gives the device back to the scanner.
OpenDeviceRollsBack(op, class, a, fail, newOk) ==
  LET r0 == findByAddress(n, skipped, a, dir, fail)
      r == IF r0.res = "ok" /\ ~newOk
           THEN [r0 EXCEPT !.n = n, !.skipped = skipped]
           ELSE r0
  IN /\ opened.class \in {"none", class}
     /\ newOk \/ r.res = "ok"
     /\ ScanStep(op, String(a), a, fail, r)
     /\ opened' = [class |-> class,
                   broken |-> IF r.res = "ok" /\ ~newOk /\ opened.broken = {}
                              THEN {[slot |-> r.slot, addr |-> a, n |-> r.n]}
                              ELSE opened.broken]
     /\ UNCHANGED <<readVars, claimVars, regs, entries, listing, file,
                    written, fp, fpOut, motor>>

\* The second half of Port.OpenSensor and Port.OpenTachoMotor, by one
\* goroutine: devices.mu is locked, the scanner of the class resolves the
\* port's address, newSensor or newTachoMotor is called on the path it
\* returns and succeeds (newOk) or fails, and the mutex is unlocked. The
\* scanner is not told of a failed construction, so that a failure leaves
\* it as a success does; the history keeps the first failure of a run.
OpenDevice(op, class, a, fail, newOk) ==
  LET r == findByAddress(n, skipped, a, dir, fail)
  IN /\ opened.class \in {"none", class}
     /\ newOk \/ r.res = "ok"
     /\ ScanStep(op, String(a), a, fail, r)
     /\ opened' = [class |-> class,
                   broken |-> IF r.res = "ok" /\ ~newOk /\ opened.broken = {}
                              THEN {[slot |-> r.slot, addr |-> a, n |-> r.n]}
                              ELSE opened.broken]
     /\ UNCHANGED <<readVars, claimVars, regs, entries, listing, file,
                    written, fp, fpOut, motor>>

\* The I/O failures injected into the scan of an open call: none, or the
\* listing fails.
OpenFails == {f \in Fails : f.kind \in {"none", "list"}}

\* The attribute of the port whose write fails in an open call, if any.
PortWrites == {"none", "mode", "set_device"}

\* Port.OpenSensor(typ) on the port with address a.
OpenSensor(typ, a, wfail, fail, newOk) ==
  IF portMode(typ) = ""
  THEN /\ wfail = "none" /\ fail = NoFail /\ newOk
       /\ OpenRejected("OpenSensor", "lego-sensor", a, "badtype")
  ELSE IF wfail # "none"
  THEN /\ fail = NoFail /\ newOk
       /\ OpenRejected("OpenSensor", "lego-sensor", a, "writeerr")
  ELSE OpenDevice("OpenSensor", "lego-sensor", a, fail, newOk)

\* Port.OpenTachoMotor() on the port with address a.
OpenTachoMotor(a, wfail, fail, newOk) ==
  IF wfail = "mode"
  THEN /\ fail = NoFail /\ newOk
       /\ OpenRejected("OpenTachoMotor", "tacho-motor", a, "writeerr")
  ELSE /\ wfail = "none"
       /\ OpenDevice("OpenTachoMotor", "tacho-motor", a, fail, newOk)

\* The caller takes the result of the call.
Return ==
  /\ last.op # "none"
  /\ last' = NoCall
  /\ UNCHANGED <<dir, n, skipped, claimed, readVars, claimVars, concVars,
                 reuseVars, helperVars>>

\* ------------------------------------------------------ specifications
\* One scanner used through direct findByAddress calls.
Next ==
  \/ Return
  \/ \E s \in Slots, c \in Contents :
       CreateDevice(s, c) /\ UNCHANGED <<reconf, reuseVars>>
  \/ \E s \in Slots : DeleteDevice(s) /\ UNCHANGED <<reconf, reuseVars>>
  \/ \E a \in ReqAddrs, fail \in Fails :
       LET r == findByAddress(n, skipped, a, dir, fail)
       IN FindByAddress(a, fail, r) /\ UNCHANGED <<readVars, claimVars>>

Spec == Init /\ [][Next]_vars

\* The same, with the reads counted.
NextReads ==
  \/ Return
  \/ \E s \in Slots, c \in Contents :
       CreateDevice(s, c) /\ UNCHANGED <<reconf, reuseVars>>
  \/ \E s \in Slots : DeleteDevice(s) /\ UNCHANGED <<reconf, reuseVars>>
  \/ \E a \in ReqAddrs, fail \in Fails :
       LET r == findByAddress(n, skipped, a, dir, fail)
       IN FindByAddress(a, fail, r) /\ CountReads(fail, r)
            /\ UNCHANGED claimVars

SpecReads == Init /\ [][NextReads]_vars

\* The same, with the claims and the reconfigurations recorded.
NextReconf ==
  \/ Return
  \/ \E s \in Slots, c \in Contents :
       CreateDevice(s, c) /\ NoteCreate(s, c) /\ UNCHANGED reuseVars
  \/ \E s \in Slots :
       DeleteDevice(s) /\ NoteDelete(s) /\ UNCHANGED reuseVars
  \/ \E a \in ReqAddrs, fail \in Fails :
       LET r == findByAddress(n, skipped, a, dir, fail)
       IN FindByAddress(a, fail, r) /\ NoteClaim(a, r) /\ UNCHANGED readVars

SpecReconf == Init /\ [][NextReconf]_vars

\* The lego-port scanner of a Brick, used through PortByAddress only.
NextPorts ==
  \/ Return
  \/ \E s \in Slots, c \in Contents :
       CreateDevice(s, c) /\ UNCHANGED <<reconf, reuseVars>>
  \/ \E s \in Slots : DeleteDevice(s) /\ UNCHANGED <<reconf, reuseVars>>
  \/ \E str \in PortStrings, fail \in Fails :
       PortByAddress(str, fail) /\ UNCHANGED readVars

SpecPorts == Init /\ [][NextPorts]_vars

\* Direct findByAddress calls, with the reuse of slot numbers recorded.
NextReuse ==
  \/ Return
  \/ \E s \in Slots, c \in Contents :
       CreateDevice(s, c) /\ NoteRecreate(s) /\ UNCHANGED reconf
  \/ \E s \in Slots : DeleteDevice(s) /\ NoteGone(s) /\ UNCHANGED reconf
  \/ \E a \in ReqAddrs, fail \in Fails :
       LET r == findByAddress(n, skipped, a, dir, fail)
       IN FindByAddress(a, fail, r) /\ UNCHANGED <<readVars, claimVars>>

SpecReuse == Init /\ [][NextReuse]_vars

\* "`<n>` is monotonically increasing": the kernel gives a new device a
\* number above every number it has given out in this class directory.
KernelNumbering(s) == \A u \in Listed(dir) \cup gone : u < s

\* Direct findByAddress calls on a class directory that the kernel numbers
\* in increasing order, without reusing a number.
NextKernel ==
  \/ Return
  \/ \E s \in Slots, c \in Contents :
       KernelNumbering(s) /\ CreateDevice(s, c)
         /\ UNCHANGED <<reconf, reuseVars>>
  \/ \E s \in Slots : DeleteDevice(s) /\ NoteGone(s) /\ UNCHANGED reconf
  \/ \E a \in ReqAddrs, fail \in Fails :
       LET r == findByAddress(n, skipped, a, dir, fail)
       IN FindByAddress(a, fail, r) /\ UNCHANGED <<readVars, claimVars>>

SpecKernel == Init /\ [][NextKernel]_vars

\* The scanner of one device class, used through Port.OpenSensor or through
\* Port.OpenTachoMotor (the first open decides which) on the ports whose
\* addresses are ReqAddrs; the construction of a resolved device may fail.
NextOpen ==
  \/ Return
  \/ \E s \in Slots, c \in Contents :
       CreateDevice(s, c) /\ UNCHANGED <<reconf, reuseVars>>
  \/ \E s \in Slots : DeleteDevice(s) /\ UNCHANGED <<reconf, reuseVars>>
  \/ \E typ \in SensorTypes, a \in ReqAddrs, wfail \in PortWrites,
        fail \in OpenFails, newOk \in BOOLEAN :
       OpenSensor(typ, a, wfail, fail, newOk)
  \/ \E a \in ReqAddrs, wfail \in PortWrites, fail \in OpenFails,
        newOk \in BOOLEAN :
       OpenTachoMotor(a, wfail, fail, newOk)

SpecOpen == Init /\ [][NextOpen]_vars

\* Addresses made by newAddress and by readAttrAddr, two at a time.
SpecCodec == Init /\ [][NextCodec]_vars

\* A class directory with arbitrary entry names, listed and resolved against.
SpecList == Init /\ [][NextList]_vars

\* One attribute file, opened for writing and written to repeatedly.
SpecFile == Init /\ [][NextFile]_vars

\* The operations of package fixedpoint, applied to operands of every kind.
SpecFixed == Init /\ [][NextFixed]_vars

\* One tacho motor, opened and driven with commands of every kind.
SpecMotor == Init /\ [][NextMotor]_vars

\* ------------------------------------------- concurrent use of the API
\* The scanners of a Brick: brick.ports, devices.tachoMotors, devices.sensors.
Dirs == {"ports", "tachoMotors", "sensors"}

\* Goroutine g is executing findByAddress on scanner D.
InFind(g, D) ==
  \/ D = "ports" /\ pc[g] = "pba_find"
  \/ D = "sensors" /\ pc[g] = "os_find"
  \/ D = "tachoMotors" /\ pc[g] = "tm_find"

Goto(g, label) == pc' = [pc EXCEPT ![g] = label]

\* Brick.PortByAddress up to the call of brick.ports.findByAddress: no lock
\* is taken.
PortByAddressEnter(g, str) ==
  /\ pc[g] = "idle"
  /\ IF newAddress(str).err THEN UNCHANGED pc ELSE Goto(g, "pba_find")
  /\ UNCHANGED <<mu, havePort, scanVars, readVars, claimVars,
                 reuseVars, helperVars>>

\* brick.ports.findByAddress returns; a Port is built when it found one.
PortByAddressReturn(g, found) ==
  /\ pc[g] = "pba_find"
  /\ Goto(g, "idle")
  /\ havePort' = (havePort \/ found)
  /\ UNCHANGED <<mu, scanVars, readVars, claimVars,
                 reuseVars, helperVars>>

\* Port.OpenSensor: the type is checked before anything is written.
OpenSensorStart(g, typ) ==
  /\ pc[g] = "idle"
  /\ havePort
  /\ IF portMode(typ) = "" THEN UNCHANGED pc ELSE Goto(g, "os_mode")
  /\ UNCHANGED <<mu, havePort, scanVars, readVars, claimVars,
                 reuseVars, helperVars>>

\* The mode attribute is opened, written and closed.
OpenSensorWriteMode(g, ok) ==
  /\ pc[g] = "os_mode"
  /\ Goto(g, IF ok THEN "os_driver" ELSE "idle")
  /\ UNCHANGED <<mu, havePort, scanVars, readVars, claimVars,
                 reuseVars, helperVars>>

\* The set_device attribute is opened, written and closed; then the sleep.
OpenSensorWriteDriver(g, ok) ==
  /\ pc[g] = "os_driver"
  /\ Goto(g, IF ok THEN "os_lock" ELSE "idle")
  /\ UNCHANGED <<mu, havePort, scanVars, readVars, claimVars,
                 reuseVars, helperVars>>

\* p.devices.mu.Lock(), then p.devices.sensors.findByAddress is entered.
OpenSensorLock(g) ==
  /\ pc[g] = "os_lock"
  /\ mu = Unlocked
  /\ mu' = g
  /\ Goto(g, "os_find")
  /\ UNCHANGED <<havePort, scanVars, readVars, claimVars,
                 reuseVars, helperVars>>

\* The mutex is unlocked at the end of the function only, not on the error
\* return.
OpenSensorFindLeaks(g, found) ==
  /\ pc[g] = "os_find"
  /\ Goto(g, IF found THEN "os_new" ELSE "idle")
  /\ UNCHANGED <<mu, havePort, scanVars, readVars, claimVars,
                 reuseVars, helperVars>>

\* findByAddress returns; on an error the deferred Unlock runs.
OpenSensorFind(g, found) ==
  /\ pc[g] = "os_find"
  /\ Goto(g, IF found THEN "os_new" ELSE "idle")
  /\ mu' = IF found THEN mu ELSE Unlocked
  /\ UNCHANGED <<havePort, scanVars, readVars, claimVars,
                 reuseVars, helperVars>>

\* newSensor returns (a sensor or an error); the deferred Unlock runs.
OpenSensorNew(g, ok) ==
  /\ pc[g] = "os_new"
  /\ Goto(g, "idle")
  /\ mu' = Unlocked
  /\ UNCHANGED <<havePort, scanVars, readVars, claimVars,
                 reuseVars, helperVars>>

\* Port.OpenTachoMotor starts by writing the mode attribute.
OpenTachoMotorStart(g) ==
  /\ pc[g] = "idle"
  /\ havePort
  /\ Goto(g, "tm_mode")
  /\ UNCHANGED <<mu, havePort, scanVars, readVars, claimVars,
                 reuseVars, helperVars>>

\* The mode attribute is opened, written and closed; then the sleep.
OpenTachoMotorWriteMode(g, ok) ==
  /\ pc[g] = "tm_mode"
  /\ Goto(g, IF ok THEN "tm_lock" ELSE "idle")
  /\ UNCHANGED <<mu, havePort, scanVars, readVars, claimVars,
                 reuseVars, helperVars>>

\* p.devices.mu.Lock(), then p.devices.tachoMotors.findByAddress is entered.
OpenTachoMotorLock(g) ==
  /\ pc[g] = "tm_lock"
  /\ mu = Unlocked
  /\ mu' = g
  /\ Goto(g, "tm_find")
  /\ UNCHANGED <<havePort, scanVars, readVars, claimVars,
                 reuseVars, helperVars>>

\* findByAddress returns; on an error the deferred Unlock runs.
OpenTachoMotorFind(g, found) ==
  /\ pc[g] = "tm_find"
  /\ Goto(g, IF found THEN "tm_new" ELSE "idle")
  /\ mu' = IF found THEN mu ELSE Unlocked
  /\ UNCHANGED <<havePort, scanVars, readVars, claimVars,
                 reuseVars, helperVars>>

\* newTachoMotor returns (a motor or an error); the deferred Unlock runs.
OpenTachoMotorNew(g, ok) ==
  /\ pc[g] = "tm_new"
  /\ Goto(g, "idle")
  /\ mu' = Unlocked
  /\ UNCHANGED <<havePort, scanVars, readVars, claimVars,
                 reuseVars, helperVars>>

NextConc ==
  \E g \in Goroutines :
    \/ \E str \in PortStrings : PortByAddressEnter(g, str)
    \/ \E found \in BOOLEAN : PortByAddressReturn(g, found)
    \/ \E typ \in SensorTypes : OpenSensorStart(g, typ)
    \/ \E ok \in BOOLEAN : OpenSensorWriteMode(g, ok)
    \/ \E ok \in BOOLEAN : OpenSensorWriteDriver(g, ok)
    \/ OpenSensorLock(g)
    \/ \E found \in BOOLEAN : OpenSensorFind(g, found)
    \/ \E ok \in BOOLEAN : OpenSensorNew(g, ok)
    \/ OpenTachoMotorStart(g)
    \/ \E ok \in BOOLEAN : OpenTachoMotorWriteMode(g, ok)
    \/ OpenTachoMotorLock(g)
    \/ \E found \in BOOLEAN : OpenTachoMotorFind(g, found)
    \/ \E ok \in BOOLEAN : OpenTachoMotorNew(g, ok)

\* Goroutines calling PortByAddress, OpenSensor and OpenTachoMotor on one
\* Brick and its Ports.
SpecConc == Init /\ [][NextConc]_vars

\* ============================================================ properties
\* The last step was a call that reached the scanner.
Called == last.op # "none" /\ last.res # "toolong"

\* The address a read of the listed slot s yields now.
AddrOf(s) == readAttrAddr(dir[s]).a

SkipSlots(sk) == {sk[k].i : k \in 1..Len(sk)}
SkipSlotsFor(sk, a) == {sk[k].i : k \in {j \in 1..Len(sk) : sk[j].addr = a}}

\* The slots the call could return, seen from the state it started in: the
\* listed slots recorded in the skip list under the requested address, and
\* the listed slots above the high-water mark that hold it on disk.
Eligible ==
  {s \in Listed(dir) :
     \/ s \in SkipSlotsFor(last.pre_skipped, last.addr)
     \/ /\ s \notin SkipSlots(last.pre_skipped)
        /\ s > last.pre_n
        /\ AddrOf(s) = last.addr}

\* The listed slots this scanner has not returned that hold the requested
\* address on disk.
UnclaimedMatching ==
  {s \in Listed(dir) \ last.pre_claimed : AddrOf(s) = last.addr}

\* C1: a slot that a call has returned is never returned again by a later
\* call, for any address and whatever was created or deleted in between.
NoDoubleClaim == last.res = "ok" => last.slot \notin last.pre_claimed

\* A call for an address that a claimed, still listed slot holds.
NoDoubleClaimWitness ==
  /\ Called
  /\ last.res \in {"ok", "notfound"}
  /\ \E s \in last.pre_claimed : dir[s] # Absent /\ AddrOf(s) = last.addr

\* C2: the slot a call returns is listed and its address attribute holds the
\* requested address at that moment.
ReturnsRequestedAddress ==
  last.res = "ok" => /\ dir[last.slot] # Absent
                     /\ AddrOf(last.slot) = last.addr

\* C3 as stated: the address attribute of each slot is read at most once,
\* failed calls included.
ReadAtMostOnce == \A s \in Slots : readCount[s] <= 1

\* C3: the address attribute of each slot is read successfully at most once;
\* a read that fails is repeated by a later call.
SuccessfullyReadAtMostOnce == \A s \in Slots : okCount[s] <= 1

\* A call that completes and passes over a listed slot read by an earlier one.
SuccessfullyReadAtMostOnceWitness ==
  /\ Called
  /\ last.res \in {"ok", "notfound"}
  /\ \E s \in Listed(dir) : okCount[s] = 1 /\ s \notin last.reads

\* C4 as stated: a call whose listing succeeds, for the address recorded in
\* the skip list for a listed slot, returns that slot without reading it.
SkipAndReplay ==
  (Called /\ last.fail.kind # "list") =>
    \A s \in SkipSlotsFor(last.pre_skipped, last.addr) \cap Listed(dir) :
      last.res = "ok" /\ last.slot = s /\ s \notin last.reads

\* C4: such a call returns the lowest-numbered listed slot recorded in the
\* skip list under the requested address, and reads nothing at all.
SkipAndReplayLowest ==
  (Called /\ last.fail.kind # "list") =>
    LET S == SkipSlotsFor(last.pre_skipped, last.addr) \cap Listed(dir)
    IN S # {} => /\ last.res = "ok"
                 /\ last.via = "skip"
                 /\ last.slot \in S
                 /\ \A s \in S : last.slot <= s
                 /\ last.reads = {}

\* A slot skipped by an earlier call is returned from the skip list.
SkipAndReplayWitness ==
  /\ last.res = "ok"
  /\ last.via = "skip"
  /\ last.slot \in SkipSlotsFor(last.pre_skipped, last.addr)

NotFoundIffNoUnclaimedMatch ==
  (Called /\ last.fail = NoFail) =>
    (last.res = "notfound" <=> UnclaimedMatching = {})

\* C6: a call free of I/O failures reports not-found exactly when no listed
\* slot is recorded in the skip list under the requested address and no
\* listed slot above the high-water mark holds it.
NotFoundIffNoneEligible ==
  (Called /\ last.fail = NoFail) =>
    (last.res = "notfound" <=> Eligible = {})

\* Not-found for an address that a claimed slot, still listed, holds.
NotFoundIffNoneEligibleWitness ==
  /\ last.res = "notfound"
  /\ last.fail = NoFail
  /\ \E s \in last.pre_claimed \cap Listed(dir) : AddrOf(s) = last.addr

\* C7 as stated: the next call (free of I/O failures) for the address of a
\* slot that was created above the high-water mark after the claimed slot of
\* that address was removed returns that slot.
ReconfiguredFound ==
  (Called /\ last.fail = NoFail) =>
    \A M \in last.pre_reconf :
      AddrOf(M) = last.addr => last.res = "ok" /\ last.slot = M

\* C7: that call returns the lowest-numbered eligible slot, which is the new
\* slot when no lower-numbered listed slot is eligible.
ReconfiguredFoundLowest ==
  (Called /\ last.fail = NoFail) =>
    \A M \in last.pre_reconf :
      AddrOf(M) = last.addr =>
        /\ last.res = "ok"
        /\ M \in Eligible
        /\ last.slot \in Eligible
        /\ \A s \in Eligible : last.slot <= s
        /\ (\A s \in Eligible : M <= s) => last.slot = M

\* The slot created for the reconfigured device is returned.
ReconfiguredFoundWitness ==
  /\ last.res = "ok"
  /\ last.slot \in last.pre_reconf
  /\ \E N \in last.pre_claimed : dir[N] = Absent /\ claimedAddr[N] = last.addr

\* C8: once PortByAddress has returned a Port for an address, no later
\* PortByAddress call for that address succeeds.
PortOnlyOnce ==
  (last.op = "PortByAddress" /\ last.res = "ok") =>
    \A s \in last.pre_claimed \ {last.slot} :
      String(claimedAddr[s]) # last.str

FindsSerialized ==
  \A D \in Dirs : Cardinality({g \in Goroutines : InFind(g, D)}) <= 1

\* C11: a slot that was deleted and created again at or below the high-water
\* mark, and that no call had returned before, is never returned by a later
\* call, whatever address is asked for.
RecreatedNeverReturned == last.res = "ok" => last.slot \notin masked

\* C12: newAddress succeeds on a string of at most 63 bytes and String gives
\* the string back; on a longer string it fails (address too long).
AddressRoundTrip ==
  \A i \in Regs :
    regs[i].via = "new" =>
      IF Len(regs[i].str) <= AddrLen - 1
      THEN ~regs[i].err /\ String(regs[i].a) = regs[i].str
      ELSE regs[i].err

\* The longest string that fits was encoded, and one byte more was refused.
AddressRoundTripWitness ==
  /\ regs[1].via = "new" /\ Len(regs[1].str) = AddrLen - 1 /\ ~regs[1].err
  /\ regs[2].via = "new" /\ Len(regs[2].str) = AddrLen /\ regs[2].err

\* The string an address was produced for: the argument of newAddress, or the
\* content of the attribute without its trailing newline.
Denoted(r) ==
  IF r.via = "read" /\ Len(r.str) > 0 /\ r.str[Len(r.str)] = NL
  THEN SubSeq(r.str, 1, Len(r.str) - 1)
  ELSE r.str

Produced(i) == regs[i].via # "none" /\ ~regs[i].err

\* C13: two addresses made by newAddress or readAttrAddr are equal exactly
\* when their strings are equal; the length byte is the length of the string
\* and every byte behind the string is zero.
AddressEquality ==
  /\ \A i \in Regs :
       Produced(i) =>
         /\ String(regs[i].a) = Denoted(regs[i])
         /\ regs[i].a[1] = Len(Denoted(regs[i]))
         /\ \A k \in (regs[i].a[1] + 2)..AddrLen : regs[i].a[k] = 0
  /\ \A i, j \in Regs :
       (Produced(i) /\ Produced(j)) =>
         /\ regs[i].a = regs[j].a <=> String(regs[i].a) = String(regs[j].a)
         /\ regs[i].a = regs[j].a <=> Denoted(regs[i]) = Denoted(regs[j])

\* The longest string that fits, encoded by newAddress and read from an
\* attribute that ends in a newline: the two addresses are equal.
AddressEqualityWitness ==
  /\ regs[1].via = "new" /\ ~regs[1].err
  /\ Len(regs[1].str) = AddrLen - 1
  /\ regs[2].via = "read" /\ ~regs[2].err
  /\ regs[2].str = regs[1].str \o <<NL>>
  /\ regs[1].a = regs[2].a

\* A name made of the prefix followed by one or more decimal digits.
PrefixThenDigits(nm) ==
  /\ HasPrefix(nm, Prefix)
  /\ Len(nm) > Len(Prefix)
  /\ \A k \in (Len(Prefix) + 1)..Len(nm) : nm[k] \in Digits

\* C14: the listing keeps exactly the entries named prefix-then-digits; when
\* the directory holds no such entry, no address is read and the call reports
\* not-found.
ListingFilter ==
  listing.op = "resolve" =>
    /\ listing.kept = {nm \in entries : PrefixThenDigits(nm)}
    /\ (\A nm \in entries : ~PrefixThenDigits(nm)) =>
         listing.res = "notfound" /\ listing.reads = {}

\* C15: after writeAttr calls that all succeeded on one open handle, the file
\* holds exactly the bytes of the last call.
TruncateBeforeWrite ==
  (file # Closed /\ written.calls > 0 /\ ~written.failed) =>
    file.content = written.p

\* C16: a call whose listing fails returns an error and leaves the high-water
\* mark and the skip list as they were; so does a call that reports not-found
\* when no listed slot lies above the high-water mark.
FailureLeavesState ==
  /\ (Called /\ last.fail.kind = "list") =>
       /\ last.res = "ioerr"
       /\ n = last.pre_n
       /\ skipped = last.pre_skipped
  /\ (last.res = "notfound" /\ \A s \in Listed(dir) : s <= last.pre_n) =>
       /\ n = last.pre_n
       /\ skipped = last.pre_skipped

\* The listing fails while an unscanned slot is listed and the skip list is
\* not empty.
FailureLeavesStateWitness ==
  /\ last.fail.kind = "list"
  /\ last.res = "ioerr"
  /\ last.pre_skipped # <<>>
  /\ \E s \in Listed(dir) : s > last.pre_n

\* C17: the high-water mark is a slot whose address was read successfully;
\* a call that fails to open or read slot k returns an error with the
\* high-water mark below k and no skip list entry for k, and the next call
\* for the address of k, when nothing fails and no listed slot is recorded
\* under that address, reads k and returns it.
ReadBeforeAdvance ==
  /\ n >= 0 => okCount[n] >= 1
  /\ (last.res = "ioerr" /\ last.fail.kind \in {"open", "read"}) =>
       LET k == last.fail.slot
           r == findByAddress(n, skipped, AddrOf(k), dir, NoFail)
       IN /\ n < k
          /\ k \notin SkipSlots(skipped)
          /\ SkipSlotsFor(skipped, AddrOf(k)) \cap Listed(dir) = {} =>
               /\ r.res = "ok"
               /\ r.slot = k
               /\ k \in r.okReads
               /\ r.n = k

\* A slot whose read failed in an earlier call is read and returned.
ReadBeforeAdvanceWitness ==
  /\ last.res = "ok"
  /\ last.via = "read"
  /\ readCount[last.slot] > okCount[last.slot]
  /\ okCount[last.slot] = 1
  /\ n = last.slot

\* v1 / 10^d1 and v2 / 10^d2 are the same number (in exact arithmetic).
RECURSIVE SameNumber(_, _, _, _)
SameNumber(v1, d1, v2, d2) ==
  IF d1 = d2 THEN v1 = v2
  ELSE IF d1 > d2
  THEN v1 % 10 = 0 /\ SameNumber(v1 \div 10, d1 - 1, v2, d2)
  ELSE v2 % 10 = 0 /\ SameNumber(v1, d1, v2 \div 10, d2 - 1)

\* C18: Equal returns true exactly when the two values denote the same
\* number, whatever the decimals of each side.
EqualIsNumericEquality ==
  fp.op = "Equal" =>
    (fpOut.eq <=>
       SameNumber(fp.a.value, fp.a.decimals, fp.b.value, fp.b.decimals))

\* C19: the number denoted by fp.Shift10(n) is the number denoted by fp
\* times 10^n, for negative, zero and positive n.
Shift10Multiplies ==
  fp.op = "Shift10" =>
    LET up == IF fp.sh > fp.a.decimals THEN fp.sh - fp.a.decimals ELSE 0
        down == IF fp.sh > fp.a.decimals THEN 0 ELSE fp.a.decimals - fp.sh
    IN SameNumber(fpOut.v.value, fpOut.v.decimals + up, fp.a.value, down)

\* C20: the entries of the skip list are in strictly ascending order of
\* device number, in every state.
SkipSorted ==
  \A i, j \in 1..Len(skipped) : i < j => skipped[i].i < skipped[j].i

\* An entry was taken out of the middle of the skip list.
SkipSortedWitness ==
  /\ last.res = "ok"
  /\ last.via = "skip"
  /\ Len(skipped) = 2
  /\ skipped[1].i < last.slot
  /\ last.slot < skipped[2].i

\* The entries of a skip list, as a set.
Entries(sk) == {sk[k] : k \in 1..Len(sk)}

\* C21: every skip list entry has a device number at or below the high-water
\* mark; an entry that a call adds holds the address the call read from that
\* slot, which is not the address the call was asked for, and the entries it
\* does not add are entries it found.
SkipEntriesBelowMark ==
  /\ \A e \in Entries(skipped) : e.i <= n
  /\ Called =>
       \A e \in Entries(skipped) \ Entries(last.pre_skipped) :
         /\ e.i \in last.reads
         /\ e.addr = AddrOf(e.i)
         /\ e.addr # last.addr

\* A call adds an entry to a skip list that already holds a lower one.
SkipEntriesBelowMarkWitness ==
  /\ Called
  /\ last.pre_skipped # <<>>
  /\ Entries(skipped) \ Entries(last.pre_skipped) # {}
  /\ Entries(last.pre_skipped) \subseteq Entries(skipped)

SkipReturnFrame ==
  (Called /\ last.via = "skip") =>
    /\ last.reads = {}
    /\ n = last.pre_n
    /\ \E k \in 1..Len(last.pre_skipped) :
         /\ last.pre_skipped[k] = [i |-> last.slot, addr |-> last.addr]
         /\ Len(skipped) = Len(last.pre_skipped) - 1
         /\ \A j \in 1..Len(skipped) :
              skipped[j] = last.pre_skipped[IF j < k THEN j ELSE j + 1]

\* The returned entry stood before another one, which is kept, while a
\* device above the high-water mark is left unread.
SkipReturnFrameWitness ==
  /\ Called
  /\ last.via = "skip"
  /\ Len(last.pre_skipped) >= 2
  /\ last.pre_skipped[1].i = last.slot
  /\ \E s \in Listed(dir) : s > n

\* C24: a call that matches on a device N it has just read returns at once:
\* the high-water mark is N, the skip list has no entry for N, every listed
\* device between the old high-water mark and N is in the skip list, and no
\* device above N was read: it is above the mark and not in the skip list, so
\* a later call reads it.
FreshMatchFrame ==
  (Called /\ last.via = "read") =>
    /\ n = last.slot
    /\ last.slot \notin SkipSlots(skipped)
    /\ \A s \in Listed(dir) :
         (last.pre_n < s /\ s < last.slot) => s \in SkipSlots(skipped)
    /\ \A s \in Listed(dir) :
         s > last.slot =>
           (s \notin last.reads /\ s > n /\ s \notin SkipSlots(skipped))

\* The match is on the middle one of three listed devices, none of which
\* had been scanned.
FreshMatchFrameWitness ==
  /\ Called
  /\ last.via = "read"
  /\ \E s \in Listed(dir) : last.pre_n < s /\ s < last.slot
  /\ \E s \in Listed(dir) : s > last.slot

\* Goroutine g is between p.devices.mu.Lock() and the return of OpenSensor or
\* OpenTachoMotor.
InCritical(g) == pc[g] \in {"os_find", "os_new", "tm_find", "tm_new"}

\* C25: a goroutine executing findByAddress for OpenSensor or OpenTachoMotor
\* holds devices.mu, so no two of these calls run at the same time, on the
\* sensor scanner, the motor scanner or one of each; and a goroutine that has
\* returned from either function, with a device or an error, does not hold it.
OneDevicesLock ==
  /\ \A g \in Goroutines :
       (InFind(g, "sensors") \/ InFind(g, "tachoMotors")) => mu = g
  /\ Cardinality({g \in Goroutines :
                    InFind(g, "sensors") \/ InFind(g, "tachoMotors")}) <= 1
  /\ \A g \in Goroutines : mu = g => InCritical(g)

\* One goroutine resolves a sensor while another, which opens a motor, waits
\* for the mutex.
OneDevicesLockWitness ==
  \E g, h \in Goroutines :
    /\ InFind(g, "sensors")
    /\ pc[h] = "tm_lock"
    /\ mu = g

Abs(x) == IF x < 0 THEN 0 - x ELSE x

\* The operations that start or stop the motor with parameters.
WithParams == {"RunToPosition", "RunToDelta", "RunTimed"}
Commands == WithParams \cup {"Run", "Stop"}

\* The indices of the writes the last call made to the command attribute.
CommandWrites ==
  {k \in 1..Len(motor.log) : motor.log[k].attr = "command"}

\* The last call wrote p to the attribute attr, and the write succeeded.
Wrote(attr, p) ==
  \E k \in 1..Len(motor.log) :
    motor.log[k].attr = attr /\ motor.log[k].val = p /\ motor.log[k].ok

\* The speed and the stop action the last call was given, if any.
SpeedGiven ==
  IF motor.op = "Run" THEN {motor.arg}
  ELSE IF motor.op \in WithParams /\ ~motor.params.nil
  THEN {motor.params.Speed}
  ELSE {}

ActionGiven ==
  IF motor.op = "Stop" THEN {motor.arg}
  ELSE IF motor.op \in WithParams /\ ~motor.params.nil
  THEN {motor.params.StopAction}
  ELSE {}

\* C26: Run, RunToPosition, RunToDelta, RunTimed and Stop write the command
\* attribute only after every set-point and stop-action write of the call
\* was made and succeeded; a call whose speed is beyond the maximum speed of
\* the motor, in either direction, or whose stop action is not Coast, Brake or
\* Hold returns an error and does not write the command attribute.
CommandAfterParameters ==
  motor.op \in Commands =>
    /\ \A k \in CommandWrites :
         /\ k = Len(motor.log)
         /\ \A j \in 1..(k - 1) : motor.log[j].ok
    /\ CommandWrites # {} =>
         /\ motor.op = "Run" => Wrote("speed_sp", AppendInt(motor.arg))
         /\ motor.op \in {"RunToPosition", "RunToDelta"} =>
              Wrote("position_sp", AppendInt(motor.arg))
         /\ motor.op = "RunTimed" =>
              Wrote("time_sp", AppendInt(motor.arg \div 1000000))
         /\ motor.op = "Stop" =>
              Wrote("stop_action", StopActionString(motor.arg))
         /\ motor.op \in WithParams =>
              /\ \A s \in SpeedGiven \ {0} : Wrote("speed_sp", AppendInt(s))
              /\ \A x \in ActionGiven : Wrote("stop_action", StopActionString(x))
              /\ motor.params.nil => Wrote("stop_action", "coast")
    /\ ( \/ \E s \in SpeedGiven : Abs(s) > motor.maxSpeed
         \/ \E x \in ActionGiven : x \notin {Coast, Brake, Hold} ) =>
         (motor.err /\ CommandWrites = {})

\* RunToPosition with a speed and a stop action: three writes, then the
\* command.
CommandAfterParametersWitness ==
  /\ motor.op = "RunToPosition"
  /\ ~motor.params.nil
  /\ motor.params.Speed # 0
  /\ Len(motor.log) = 4
  /\ CommandWrites = {4}
  /\ ~motor.err

\* The largest device number whose address was read successfully, or -1.
LargestRead ==
  LET R == {s \in Slots : okCount[s] >= 1}
  IN IF R = {} THEN NoSlot ELSE CHOOSE s \in R : \A u \in R : u <= s

\* C27: the high-water mark is always the largest device number whose
\* address this scanner has read successfully, -1 while it has read none;
\* the set of these numbers only grows, so the mark never decreases, and no
\* call leaves it below where it found it.
HighWaterNeverDecreases ==
  /\ n = LargestRead
  /\ Called => n >= last.pre_n

\* The high-water mark is above a device that was created after the scan
\* had passed its number.
HighWaterNeverDecreasesWitness ==
  /\ Called
  /\ n > last.pre_n
  /\ last.pre_n >= 0
  /\ \E s \in Listed(dir) : s < n /\ okCount[s] = 0

\* C28: when device numbers grow and are not reused, and the address of a
\* device is fixed, a call that meets no I/O failure returns what a stateless
\* reference returns from the directory and the set of claimed devices: the
\* lowest listed device that was not returned before and holds the requested
\* address, or not found when there is none.
MatchesReference ==
  (Called /\ last.fail = NoFail) =>
    IF UnclaimedMatching = {}
    THEN last.res = "notfound"
    ELSE /\ last.res = "ok"
         /\ last.slot \in UnclaimedMatching
         /\ \A s \in UnclaimedMatching : last.slot <= s

\* A device is returned from the skip list after another one with the same
\* address was returned and a device was removed.
MatchesReferenceWitness ==
  /\ Called
  /\ last.res = "ok"
  /\ last.via = "skip"
  /\ gone # {}
  /\ \E s \in Listed(dir) \cap last.pre_claimed : AddrOf(s) = last.addr

\* The failed constructions that came before the last call, on the port the
\* last call was made on.
PriorBroken ==
  {b \in opened.broken : b.addr = last.addr /\ b.slot \in last.pre_claimed}

\* The last call is an open that got to resolve its address and met no I/O
\* failure, after a failed construction on the same port.
RetryResolved ==
  /\ last.op \in {"OpenSensor", "OpenTachoMotor"}
  /\ last.res \in {"ok", "notfound"}
  /\ PriorBroken # {}

\* C29 as stated: the retry does not return the device whose construction
\* failed, and it reports not found unless a listed device holds the address
\* of the port and is above the high-water mark, as the retry finds it or as
\* the failed open left it.
RetryNotFoundUnlessNewDevice ==
  RetryResolved =>
    /\ \A b \in PriorBroken : ~(last.res = "ok" /\ last.slot = b.slot)
    /\ \/ last.res = "notfound"
       \/ \E s \in Listed(dir) :
            /\ AddrOf(s) = last.addr
            /\ s > last.pre_n \/ \E b \in PriorBroken : s > b.n

\* C29: the device whose construction failed stays claimed: the retry does
\* not return it, and it reports not found unless another listed device is
\* in the skip list under the address of the port or is above the high-water
\* mark and holds that address.
RetryNotFoundUnlessEligible ==
  RetryResolved =>
    /\ \A b \in PriorBroken :
         /\ ~(last.res = "ok" /\ last.slot = b.slot)
         /\ b.slot \notin Eligible
    /\ last.res = "notfound" \/ Eligible # {}

\* The device whose construction failed is still listed and holds the
\* address; the retry reports not found, or returns another device from the
\* skip list.
RetryNotFoundUnlessEligibleWitness ==
  /\ RetryResolved
  /\ \E b \in PriorBroken :
       b.slot \in Listed(dir) /\ AddrOf(b.slot) = last.addr
  /\ last.res = "ok" => last.via = "skip"

====
